---------------------------- MODULE Spec2Model ----------------------------
(***************************************************************************)
(* Model of the pivot-probability scripts                                  *)
(*   docs/data-backtesting/python/scripts/pivot-timing-analysis.py         *)
(*   docs/data-backtesting/python/scripts/pivot-trajectory-analysis.py     *)
(*                                                                         *)
(* Python/numpy floats are modelled as exact extended rationals: a record  *)
(* [n, d] in lowest terms with d >= 0, where d = 0 encodes the IEEE        *)
(* specials (n = 1: +inf, n = -1: -inf, n = 0: NaN).  Rounding error is    *)
(* not modelled; the specials and their comparison rules are.              *)
(***************************************************************************)
EXTENDS Integers, Sequences, FiniteSets, TLC

VARIABLES
    highs, lows, distance, detected,       \* detect_pivots / detect_pivots_with_prices
    pivot_indices,                         \* wavelength_timing_analysis input
    pivots,                                \* List[PivotPoint]
    current_bar, current_high, current_low, tolerance_pct,
    timing,                                \* timing_analysis dict or None
    trajectory,                            \* trajectory_analysis dict
    check_high, verdict,                   \* combined_pivot_probability
    pc

vars == <<highs, lows, distance, detected, pivot_indices, pivots, current_bar,
          current_high, current_low, tolerance_pct, timing, trajectory,
          check_high, verdict, pc>>

-----------------------------------------------------------------------------
(* Bounds of the model *)

MaxGap == 3          \* largest distance between consecutive pivot positions
MaxPivots == 4       \* longest pivot position sequence given to the timing analysis
MaxAhead == 4        \* how far the evaluation bar may run past the last pivot
MaxBars == 5         \* longest high/low series given to the pivot detector
MaxLevel == 3        \* price levels 1..MaxLevel of the detector's series
MaxDistance == 3     \* largest distance parameter given to the pivot detector
MaxPos == 2          \* pivots of the trajectory analysis lie at positions 0..MaxPos
MaxPrice == 2        \* pivot and bar prices 1..MaxPrice of the trajectory analysis
Grid == 10           \* the combiner's inputs take the values 0/Grid .. Grid/Grid

-----------------------------------------------------------------------------
(* Float arithmetic *)

Abs(i) == IF i < 0 THEN -i ELSE i

Sign(i) == IF i < 0 THEN -1 ELSE IF i > 0 THEN 1 ELSE 0

RECURSIVE GCD(_, _)
GCD(a, b) == IF b = 0 THEN a ELSE GCD(b, a % b)

\* n/d in lowest terms; a zero denominator gives +inf, -inf or NaN by sign of n
Frac(n, d) ==
    IF d = 0 THEN [n |-> Sign(n), d |-> 0]
    ELSE LET g == GCD(Abs(n), Abs(d))
             s == Sign(d)
         IN  [n |-> (s * n) \div g, d |-> (s * d) \div g]

FInt(i) == [n |-> i, d |-> 1]

NaN == [n |-> 0, d |-> 0]
PosInf == [n |-> 1, d |-> 0]

IsNaN(a) == a.d = 0 /\ a.n = 0
IsInf(a) == a.d = 0 /\ a.n # 0
IsFinite(a) == a.d # 0

FNeg(a) == [n |-> -a.n, d |-> a.d]

FAbs(a) == [n |-> Abs(a.n), d |-> a.d]

FAdd(a, b) ==
    IF IsNaN(a) \/ IsNaN(b) THEN NaN
    ELSE IF IsInf(a) /\ IsInf(b) THEN (IF a.n = b.n THEN a ELSE NaN)
    ELSE IF IsInf(a) THEN a
    ELSE IF IsInf(b) THEN b
    ELSE Frac(a.n * b.d + b.n * a.d, a.d * b.d)

FSub(a, b) == FAdd(a, FNeg(b))

FMul(a, b) ==
    IF IsNaN(a) \/ IsNaN(b) THEN NaN
    ELSE IF IsInf(a) \/ IsInf(b)
         THEN (IF a.n = 0 \/ b.n = 0 THEN NaN
               ELSE [n |-> Sign(a.n) * Sign(b.n), d |-> 0])
    ELSE Frac(a.n * b.n, a.d * b.d)

\* numpy float64 division: x/0 is +-inf (0/0 and inf/inf are NaN), no exception
FDiv(a, b) ==
    IF IsNaN(a) \/ IsNaN(b) THEN NaN
    ELSE IF IsInf(a) THEN (IF IsInf(b) THEN NaN
                           ELSE [n |-> a.n * (IF b.n < 0 THEN -1 ELSE 1), d |-> 0])
    ELSE IF IsInf(b) THEN FInt(0)
    ELSE Frac(a.n * b.d, a.d * b.n)

\* every comparison with NaN is False
FLt(a, b) ==
    /\ ~IsNaN(a)
    /\ ~IsNaN(b)
    /\ IF IsInf(a) \/ IsInf(b)
       THEN (IF IsInf(a) THEN a.n ELSE 0) < (IF IsInf(b) THEN b.n ELSE 0)
       ELSE a.n * b.d < b.n * a.d

FEq(a, b) == ~IsNaN(a) /\ ~IsNaN(b) /\ a = b

FLe(a, b) == FLt(a, b) \/ FEq(a, b)

FGt(a, b) == FLt(b, a)

\* Python's builtin max(a, b): the first argument unless the second is greater
PyMax(a, b) == IF FGt(b, a) THEN b ELSE a

\* Python's builtin min(a, b): the first argument unless the second is smaller
PyMin(a, b) == IF FLt(b, a) THEN b ELSE a

RECURSIVE SumSeq(_)
SumSeq(s) == IF s = <<>> THEN 0 ELSE Head(s) + SumSeq(Tail(s))

None == [none |-> TRUE]

-----------------------------------------------------------------------------
(* pivot-timing-analysis.py: wavelength_timing_analysis *)

\* np.diff
RECURSIVE Diff(_)
Diff(s) ==
    IF Len(s) < 2 THEN <<>>
    ELSE <<s[2] - s[1]>> \o Diff(Tail(s))

\* s[-k:] of a Python list or numpy array, k >= 1
LastK(s, k) == IF Len(s) <= k THEN s ELSE SubSeq(s, Len(s) - k + 1, Len(s))

RECURSIVE Insert(_, _)
Insert(x, s) ==
    IF s = <<>> THEN <<x>>
    ELSE IF x <= Head(s) THEN <<x>> \o s
    ELSE <<Head(s)>> \o Insert(x, Tail(s))

RECURSIVE Sorted(_)
Sorted(s) == IF s = <<>> THEN <<>> ELSE Insert(Head(s), Sorted(Tail(s)))

\* np.mean of an integer array
Mean(w) == Frac(SumSeq(w), Len(w))

\* np.std(w) ** 2 (population variance); the deviation itself is irrational
Variance(w) ==
    Frac(Len(w) * SumSeq([i \in 1..Len(w) |-> w[i] * w[i]]) - SumSeq(w) * SumSeq(w),
         Len(w) * Len(w))

\* np.median
Median(w) ==
    LET s == Sorted(w)
        k == Len(w)
    IN  IF k % 2 = 1 THEN FInt(s[(k + 1) \div 2])
        ELSE Frac(s[k \div 2] + s[k \div 2 + 1], 2)

\* np.mean(wavelengths < current_distance) * 100
PercentileStrict(w, cd) ==
    FMul(Frac(Cardinality({i \in 1..Len(w) : w[i] < cd}), Len(w)), FInt(100))

\* np.mean(wavelengths <= current_distance) * 100
Percentile(w, cd) ==
    FMul(Frac(Cardinality({i \in 1..Len(w) : w[i] <= cd}), Len(w)), FInt(100))

\* a result is built from two pivots on
MinPivotsOffByOne == 3 - 1

MinPivots == 3

RecentCount == 5

\* (current_distance - avg) / std if std > 0 else 0, kept as its sign and square
ZScore(cd, avg, var) ==
    IF FGt(var, FInt(0))
    THEN [sign |-> Sign(FSub(FInt(cd), avg).n),
          sq |-> FDiv(FMul(FSub(FInt(cd), avg), FSub(FInt(cd), avg)), var)]
    ELSE [sign |-> 0, sq |-> FInt(0)]

wavelength_timing_analysis(indices, bar) ==
    IF Len(indices) < MinPivots THEN None
    ELSE LET wavelengths == Diff(indices)
             avg_wavelength == Mean(wavelengths)
             var_wavelength == Variance(wavelengths)
             median_wavelength == Median(wavelengths)
             current_distance == bar - indices[Len(indices)]
             z_score == ZScore(current_distance, avg_wavelength, var_wavelength)
             percentile == Percentile(wavelengths, current_distance)
             timing_probability == PyMin(FDiv(percentile, FInt(100)), FInt(1))
         IN  [historical_avg_wavelength |-> avg_wavelength,
              historical_var |-> var_wavelength,
              historical_median |-> median_wavelength,
              current_distance |-> current_distance,
              z_score |-> z_score,
              percentile |-> percentile,
              timing_probability |-> timing_probability,
              bars_until_avg |-> PyMax(FInt(0), FSub(avg_wavelength, FInt(current_distance))),
              recent_wavelengths |-> LastK(wavelengths, RecentCount)]

-----------------------------------------------------------------------------
(* Timing analysis evaluated bar after bar over one pivot position sequence *)

RECURSIVE AscendingSeqs(_)
AscendingSeqs(k) ==
    IF k = 0 THEN {<<>>}
    ELSE IF k = 1 THEN {<<p>> : p \in 0..MaxGap}
    ELSE {Append(s, s[Len(s)] + g) : s \in AscendingSeqs(k - 1), g \in 1..MaxGap}

PivotIndexInputs == UNION {AscendingSeqs(k) : k \in 0..MaxPivots}

LastBar == MaxGap * MaxPivots + MaxAhead

IdleDetector == highs = <<>> /\ lows = <<>> /\ distance = 0 /\ detected = None

IdleTrajectory ==
    /\ pivots = <<>>
    /\ current_high = 0
    /\ current_low = 0
    /\ tolerance_pct = FInt(0)
    /\ trajectory = None

IdleCombiner == check_high = FALSE /\ verdict = None

InitTiming ==
    /\ pivot_indices \in PivotIndexInputs
    /\ current_bar \in 0..LastBar
    /\ timing = None
    /\ pc = "start"
    /\ IdleDetector
    /\ IdleTrajectory
    /\ IdleCombiner

AnalyzeTiming ==
    /\ pc = "start"
    /\ timing' = wavelength_timing_analysis(pivot_indices, current_bar)
    /\ pc' = "analyzed"
    /\ UNCHANGED <<highs, lows, distance, detected, pivot_indices, pivots,
                   current_bar, current_high, current_low, tolerance_pct,
                   trajectory, check_high, verdict>>

\* the next bar arrives and the analysis is repeated for it
AdvanceBar ==
    /\ pc = "analyzed"
    /\ current_bar < LastBar
    /\ current_bar' = current_bar + 1
    /\ timing' = wavelength_timing_analysis(pivot_indices, current_bar')
    /\ UNCHANGED <<highs, lows, distance, detected, pivot_indices, pivots,
                   current_high, current_low, tolerance_pct,
                   trajectory, check_high, verdict, pc>>

NextTiming == AnalyzeTiming \/ AdvanceBar

SpecTiming == InitTiming /\ [][NextTiming]_vars

-----------------------------------------------------------------------------
(* scipy.signal.find_peaks(x, distance=distance), as both scripts call it *)

\* x[i] of a numpy array, 0-based
At(x, i) == x[i + 1]

\* end of the plateau starting at i: first i_ahead with
\* not (i_ahead < i_max and x[i_ahead] == x[i])
RECURSIVE PlateauEnd(_, _, _)
PlateauEnd(x, i, i_ahead) ==
    IF i_ahead < Len(x) - 1 /\ FEq(At(x, i_ahead), At(x, i))
    THEN PlateauEnd(x, i, i_ahead + 1)
    ELSE i_ahead

\* _local_maxima_1d: midpoints of the strict local maxima (plateaus included),
\* scanning i = 1 .. len(x) - 2
RECURSIVE LocalMaximaFrom(_, _)
LocalMaximaFrom(x, i) ==
    IF i >= Len(x) - 1 THEN <<>>
    ELSE IF FLt(At(x, i - 1), At(x, i))
         THEN LET i_ahead == PlateauEnd(x, i, i + 1)
              IN  IF FLt(At(x, i_ahead), At(x, i))
                  THEN <<(i + (i_ahead - 1)) \div 2>> \o LocalMaximaFrom(x, i_ahead + 1)
                  ELSE LocalMaximaFrom(x, i + 1)
         ELSE LocalMaximaFrom(x, i + 1)

LocalMaxima(x) == LocalMaximaFrom(x, 1)

\* np.argsort(priority): every permutation that sorts priority ascending; the
\* default sort is not stable, so equal priorities may come in either order
ArgSorts(priority) ==
    {o \in [1..Len(priority) -> 1..Len(priority)] :
        /\ \A i, j \in 1..Len(priority) : i # j => o[i] # o[j]
        /\ \A i \in 1..(Len(priority) - 1) : FLe(priority[o[i]], priority[o[i + 1]])}

\* the peaks a kept peak j removes: neighbours on either side closer than distance
TooCloseOffByOne(peaks, j, dist) ==
    {k \in 1..Len(peaks) : k # j /\ Abs(peaks[k] - peaks[j]) < dist - 1}

TooClose(peaks, j, dist) ==
    {k \in 1..Len(peaks) : k # j /\ Abs(peaks[k] - peaks[j]) < dist}

\* _select_by_peak_distance: from the highest priority down, a peak still
\* kept removes its neighbours closer than distance
RECURSIVE SelectFrom(_, _, _, _, _)
SelectFrom(peaks, order, dist, i, keep) ==
    IF i = 0 THEN keep
    ELSE LET j == order[i]
         IN  IF j \notin keep THEN SelectFrom(peaks, order, dist, i - 1, keep)
             ELSE SelectFrom(peaks, order, dist, i - 1, keep \ TooClose(peaks, j, dist))

RECURSIVE Keep(_, _, _)
Keep(peaks, keep, k) ==
    IF k > Len(peaks) THEN <<>>
    ELSE (IF k \in keep THEN <<peaks[k]>> ELSE <<>>) \o Keep(peaks, keep, k + 1)

select_by_peak_distance(peaks, order, dist) ==
    Keep(peaks, SelectFrom(peaks, order, dist, Len(peaks), 1..Len(peaks)), 1)

PeakHeights(x, peaks) == [k \in 1..Len(peaks) |-> At(x, peaks[k])]

\* find_peaks raises ValueError when distance < 1
DistanceRejected(dist) == dist < 1

Negated(x) == [i \in 1..Len(x) |-> FNeg(x[i])]

-----------------------------------------------------------------------------
(* detect_pivots and detect_pivots_with_prices *)

ValueError == [error |-> "ValueError"]

PivotPoint(index, price, is_high) == [index |-> index, price |-> price, is_high |-> is_high]

RECURSIVE PointsOf(_, _, _, _)
PointsOf(x, idx, is_high, k) ==
    IF k > Len(idx) THEN <<>>
    ELSE <<PivotPoint(idx[k], At(x, idx[k]), is_high)>> \o PointsOf(x, idx, is_high, k + 1)

\* the positions of the pivots of one polarity, in list order
RECURSIVE IndicesOf(_, _)
IndicesOf(ps, is_high) ==
    IF ps = <<>> THEN <<>>
    ELSE (IF Head(ps).is_high = is_high THEN <<Head(ps).index>> ELSE <<>>)
         \o IndicesOf(Tail(ps), is_high)

\* sorted(pivots, key=lambda p: p.index) of the peaks followed by the valleys:
\* a stable merge, a peak before a valley at the same index
RECURSIVE SortedByIndex(_, _)
SortedByIndex(ps, vs) ==
    IF ps = <<>> THEN vs
    ELSE IF vs = <<>> THEN ps
    ELSE IF Head(ps).index <= Head(vs).index
         THEN <<Head(ps)>> \o SortedByIndex(Tail(ps), vs)
         ELSE <<Head(vs)>> \o SortedByIndex(ps, Tail(vs))

RECURSIVE SeriesOfLength(_)
SeriesOfLength(k) ==
    IF k = 0 THEN {<<>>}
    ELSE {Append(s, FInt(v)) : s \in SeriesOfLength(k - 1), v \in 1..MaxLevel}

SeriesInputs == UNION {SeriesOfLength(k) : k \in 0..MaxBars}

\* the other series of a call: well-formed ones, and ones holding NaN or inf
CompanionSeries ==
    {<<>>,
     <<FInt(2), FInt(1), FInt(2), FInt(1), FInt(2)>>,
     <<FInt(1), FInt(2), FInt(2), FInt(1)>>,
     <<FInt(1), NaN, FInt(1)>>,
     <<FInt(1), FInt(2), NaN, PosInf, FInt(1)>>}

InitDetector ==
    /\ \/ highs \in SeriesInputs /\ lows \in CompanionSeries
       \/ highs \in CompanionSeries /\ lows \in SeriesInputs
    /\ distance \in 0..MaxDistance
    /\ detected = None
    /\ pc = "start"
    /\ pivot_indices = <<>>
    /\ current_bar = 0
    /\ timing = None
    /\ IdleTrajectory
    /\ IdleCombiner

DetectPivots ==
    /\ pc = "start"
    /\ IF DistanceRejected(distance)
       THEN detected' = ValueError
       ELSE \E po \in ArgSorts(PeakHeights(highs, LocalMaxima(highs))),
               vo \in ArgSorts(PeakHeights(Negated(lows), LocalMaxima(Negated(lows)))) :
                detected' =
                    [peak_indices |->
                        select_by_peak_distance(LocalMaxima(highs), po, distance),
                     valley_indices |->
                        select_by_peak_distance(LocalMaxima(Negated(lows)), vo, distance)]
    /\ pc' = "detect_pivots"
    /\ UNCHANGED <<highs, lows, distance, pivot_indices, pivots, current_bar,
                   current_high, current_low, tolerance_pct, timing, trajectory,
                   check_high, verdict>>

DetectPivotsWithPrices ==
    /\ pc = "start"
    /\ IF DistanceRejected(distance)
       THEN detected' = ValueError
       ELSE \E po \in ArgSorts(PeakHeights(highs, LocalMaxima(highs))),
               vo \in ArgSorts(PeakHeights(Negated(lows), LocalMaxima(Negated(lows)))) :
                LET peak_idx == select_by_peak_distance(LocalMaxima(highs), po, distance)
                    valley_idx ==
                        select_by_peak_distance(LocalMaxima(Negated(lows)), vo, distance)
                IN  detected' =
                        [pivots |-> SortedByIndex(PointsOf(highs, peak_idx, TRUE, 1),
                                                  PointsOf(lows, valley_idx, FALSE, 1))]
    /\ pc' = "detect_pivots_with_prices"
    /\ UNCHANGED <<highs, lows, distance, pivot_indices, pivots, current_bar,
                   current_high, current_low, tolerance_pct, timing, trajectory,
                   check_high, verdict>>

NextDetector == DetectPivots \/ DetectPivotsWithPrices

SpecDetector == InitDetector /\ [][NextDetector]_vars

-----------------------------------------------------------------------------
(* pivot-trajectory-analysis.py: fit_pivot_trendline, trajectory_alignment_analysis *)

RECURSIVE FSum(_)
FSum(s) == IF s = <<>> THEN FInt(0) ELSE FAdd(Head(s), FSum(Tail(s)))

\* np.cov(x, y, bias=1) as linregress does: the mean of the products of the
\* deviations from the means, sum(x*y)/n - sum(x)/n * sum(y)/n
Cov(sum_xy, sum_x, sum_y, n) ==
    FSub(FDiv(sum_xy, FInt(n)), FMul(FDiv(sum_x, FInt(n)), FDiv(sum_y, FInt(n))))

\* scipy.stats.linregress(x, y) of integer positions x and prices y:
\* slope, intercept and r_value ** 2
linregress(x, y) ==
    LET n == Len(x)
        sum_x == FInt(SumSeq(x))
        sum_y == FSum(y)
        ssxm == Cov(FInt(SumSeq([i \in 1..n |-> x[i] * x[i]])), sum_x, sum_x, n)
        ssxym == Cov(FSum([i \in 1..n |-> FMul(FInt(x[i]), y[i])]), sum_x, sum_y, n)
        ssym == Cov(FSum([i \in 1..n |-> FMul(y[i], y[i])]), sum_y, sum_y, n)
        slope == FDiv(ssxym, ssxm)
    IN  [slope |-> slope,
         intercept |-> FSub(FDiv(sum_y, FInt(n)), FMul(slope, FDiv(sum_x, FInt(n)))),
         r_squared |-> IF FEq(ssxm, FInt(0)) \/ FEq(ssym, FInt(0)) THEN FInt(0)
                       ELSE FDiv(FMul(ssxym, ssxym), FMul(ssxm, ssym))]

lookback == 5

\* [p for p in pivots if p.is_high == is_high], with the polarity test left out
FilteredAnyPolarity(ps, is_high) == ps

RECURSIVE Filtered(_, _)
Filtered(ps, is_high) ==
    IF ps = <<>> THEN <<>>
    ELSE (IF Head(ps).is_high = is_high THEN <<Head(ps)>> ELSE <<>>)
         \o Filtered(Tail(ps), is_high)

fit_pivot_trendline(ps, is_high) ==
    LET filtered == LastK(Filtered(ps, is_high), lookback)
    IN  IF Len(filtered) < 2 THEN None
        ELSE linregress([i \in 1..Len(filtered) |-> filtered[i].index],
                        [i \in 1..Len(filtered) |-> filtered[i].price])

\* r_squared * max(0, 1 - deviation_pct / tolerance_pct), without the floor
AlignmentScoreUnfloored(r_squared, deviation_pct, tol) ==
    FMul(r_squared, FSub(FInt(1), FDiv(deviation_pct, tol)))

AlignmentScore(r_squared, deviation_pct, tol) ==
    FMul(r_squared, PyMax(FInt(0), FSub(FInt(1), FDiv(deviation_pct, tol))))

\* abs(current - projected) / projected * 100
DeviationPct(current, projected) ==
    FMul(FDiv(FAbs(FSub(current, projected)), projected), FInt(100))

\* the dict stored under 'swing_high' or 'swing_low'
AlignmentResult(trend, bar, current, tol) ==
    LET projected == FAdd(FMul(trend.slope, FInt(bar)), trend.intercept)
        deviation_pct == DeviationPct(current, projected)
    IN  [slope |-> trend.slope,
         r_squared |-> trend.r_squared,
         projected_price |-> projected,
         current_price |-> current,
         deviation_pct |-> deviation_pct,
         aligned |-> FLe(deviation_pct, tol),
         trend_direction |-> IF FGt(trend.slope, FInt(0)) THEN "ascending" ELSE "descending",
         alignment_score |-> AlignmentScore(trend.r_squared, deviation_pct, tol)]

\* the returned dict: a key is present only if its trend line could be fitted
trajectory_alignment_analysis(ps, bar, high, low, tol) ==
    LET high_trend == fit_pivot_trendline(ps, TRUE)
        low_trend == fit_pivot_trendline(ps, FALSE)
        keys == (IF high_trend # None THEN {"swing_high"} ELSE {})
                \cup (IF low_trend # None THEN {"swing_low"} ELSE {})
    IN  [k \in keys |->
            IF k = "swing_high"
            THEN AlignmentResult(high_trend, bar, FInt(high), tol)
            ELSE AlignmentResult(low_trend, bar, FInt(low), tol)]

-----------------------------------------------------------------------------
(* pivot-trajectory-analysis.py: combined_pivot_probability *)

TimingWeightSwapped == Frac(6, 10)

TimingWeight == Frac(4, 10)

TrajectoryWeight == Frac(6, 10)

\* the thresholds compared with >= instead of >
ConfidenceNonStrict(r_squared, timing_prob) ==
    IF FLe(Frac(8, 10), r_squared) /\ FLe(Frac(6, 10), timing_prob) THEN "high"
    ELSE IF FLe(Frac(5, 10), r_squared) /\ FLe(Frac(4, 10), timing_prob) THEN "medium"
    ELSE "low"

Confidence(r_squared, timing_prob) ==
    IF FGt(r_squared, Frac(8, 10)) /\ FGt(timing_prob, Frac(6, 10)) THEN "high"
    ELSE IF FGt(r_squared, Frac(5, 10)) /\ FGt(timing_prob, Frac(4, 10)) THEN "medium"
    ELSE "low"

Key(ch) == IF ch THEN "swing_high" ELSE "swing_low"

InsufficientData ==
    [probability |-> FInt(0), confidence |-> "low", reason |-> "insufficient data"]

combined_pivot_probability(timing_analysis, trajectory_analysis, ch) ==
    LET key == Key(ch)
    IN  IF key \notin DOMAIN trajectory_analysis \/ timing_analysis = None
        THEN InsufficientData
        ELSE LET timing_prob == timing_analysis.timing_probability
                 alignment_score == trajectory_analysis[key].alignment_score
                 r_squared == trajectory_analysis[key].r_squared
             IN  [probability |-> FAdd(FMul(timing_prob, TimingWeight),
                                       FMul(alignment_score, TrajectoryWeight)),
                  confidence |-> Confidence(r_squared, timing_prob),
                  timing_contribution |-> timing_prob,
                  trajectory_contribution |-> alignment_score,
                  trajectory_r_squared |-> r_squared,
                  is_aligned |-> trajectory_analysis[key].aligned,
                  projected_price |-> trajectory_analysis[key].projected_price]

-----------------------------------------------------------------------------
(* One evaluation: trajectory alignment at the open bar, timing of the      *)
(* polarity of interest, combination                                       *)

\* sorted pivot lists: at each position no pivot, a swing high or a swing low
RECURSIVE PivotListsFrom(_)
PivotListsFrom(pos) ==
    IF pos > MaxPos THEN {<<>>}
    ELSE LET rest == PivotListsFrom(pos + 1)
         IN  rest \cup {<<PivotPoint(pos, FInt(v), h)>> \o r :
                            v \in 1..MaxPrice, h \in BOOLEAN, r \in rest}

PivotLists == PivotListsFrom(0)

EvalBars == {MaxPos + 1, MaxPos + 2}

\* the function's default tolerance and the one its example passes
Tolerances == {Frac(1, 2), FInt(1)}

Init ==
    /\ pivots \in PivotLists
    /\ current_bar \in EvalBars
    /\ current_high \in 1..MaxPrice
    /\ current_low \in 1..current_high
    /\ tolerance_pct \in Tolerances
    /\ pivot_indices = <<>>
    /\ timing = None
    /\ trajectory = None
    /\ pc = "start"
    /\ IdleDetector
    /\ IdleCombiner

RunTrajectory ==
    /\ pc = "start"
    /\ trajectory' = trajectory_alignment_analysis(pivots, current_bar, current_high,
                                                    current_low, tolerance_pct)
    /\ pc' = "aligned"
    /\ UNCHANGED <<highs, lows, distance, detected, pivot_indices, pivots, current_bar,
                   current_high, current_low, tolerance_pct, timing, check_high,
                   verdict>>

\* the open bar makes a new high or a new low and the alignment is computed again
Reprice ==
    /\ pc = "aligned"
    /\ \E h \in current_high..MaxPrice, l \in 1..current_low :
          /\ <<h, l>> # <<current_high, current_low>>
          /\ current_high' = h
          /\ current_low' = l
          /\ trajectory' = trajectory_alignment_analysis(pivots, current_bar, h, l,
                                                          tolerance_pct)
    /\ UNCHANGED <<highs, lows, distance, detected, pivot_indices, pivots, current_bar,
                   tolerance_pct, timing, check_high, verdict, pc>>

\* timing of the polarity of interest, over the positions of its pivots
RunTiming ==
    /\ pc = "aligned"
    /\ \E ch \in BOOLEAN :
          /\ check_high' = ch
          /\ pivot_indices' = IndicesOf(pivots, ch)
          /\ timing' = wavelength_timing_analysis(IndicesOf(pivots, ch), current_bar)
    /\ pc' = "timed"
    /\ UNCHANGED <<highs, lows, distance, detected, pivots, current_bar,
                   current_high, current_low, tolerance_pct, trajectory, verdict>>

Combine ==
    /\ pc = "timed"
    /\ verdict' = combined_pivot_probability(timing, trajectory, check_high)
    /\ pc' = "done"
    /\ UNCHANGED <<highs, lows, distance, detected, pivot_indices, pivots, current_bar,
                   current_high, current_low, tolerance_pct, timing, trajectory,
                   check_high>>

Next == RunTrajectory \/ Reprice \/ RunTiming \/ Combine

Spec == Init /\ [][Next]_vars

-----------------------------------------------------------------------------
(* combined_pivot_probability over a grid of timing and trajectory results *)

\* timing results as the script's example passes them: None, or a dict
\* holding the timing_probability
TimingInputs == {None} \cup {[timing_probability |-> Frac(k, Grid)] : k \in 0..Grid}

\* alignment results of a trend line through price 100 with r_squared on the
\* grid, for a bar on the line, half way to the tolerance and beyond it
EntryInputs ==
    {AlignmentResult([slope |-> FInt(1), intercept |-> FInt(100),
                      r_squared |-> Frac(k, Grid)], 0, c, Frac(1, 2)) :
        k \in 0..Grid, c \in {FInt(100), Frac(401, 4), FInt(101)}}

TrajectoryInputs ==
    {<<>>}
    \cup {[k \in {"swing_high"} |-> e] : e \in EntryInputs}
    \cup {[k \in {"swing_low"} |-> e] : e \in EntryInputs}
    \cup {[k \in {"swing_high", "swing_low"} |-> IF k = "swing_high" THEN eh ELSE el] :
             eh \in EntryInputs, el \in EntryInputs}

InitCombiner ==
    /\ timing \in TimingInputs
    /\ trajectory \in TrajectoryInputs
    /\ check_high \in BOOLEAN
    /\ verdict = None
    /\ pc = "timed"
    /\ pivots = <<>>
    /\ pivot_indices = <<>>
    /\ current_bar = 0
    /\ current_high = 0
    /\ current_low = 0
    /\ tolerance_pct = Frac(1, 2)
    /\ IdleDetector

NextCombiner == Combine

SpecCombiner == InitCombiner /\ [][NextCombiner]_vars

-----------------------------------------------------------------------------
(* Claims about the timing analysis, under SpecTiming *)

Fraction(x) == x.d > 0 /\ 0 <= x.n /\ x.n <= x.d

GapsNotExceeding(indices, cd) ==
    Cardinality({i \in 1..(Len(indices) - 1) : indices[i + 1] - indices[i] <= cd})

\* C2: the timing analysis returns None exactly when fewer than 3 pivot
\* positions are given; otherwise it returns a record whose percentile lies
\* in [0,100] and whose timing_probability lies in [0,1], wherever the
\* evaluation bar lies.
C2_UndefinedBelowThreePivots ==
    pc = "analyzed" =>
        /\ (timing = None) <=> (Len(pivot_indices) < 3)
        /\ timing # None =>
              /\ FLe(FInt(0), timing.percentile)
              /\ FLe(timing.percentile, FInt(100))
              /\ Fraction(timing.timing_probability)

C2_Witness ==
    /\ pc = "analyzed"
    /\ Len(pivot_indices) >= 3
    /\ current_bar <= pivot_indices[Len(pivot_indices)]
    /\ timing # None
    /\ timing.timing_probability = FInt(0)

C3_FractionOfGaps ==
    timing # None =>
        LET last == pivot_indices[Len(pivot_indices)]
            gaps == Len(pivot_indices) - 1
            cd == current_bar - last
        IN  /\ timing.current_distance = cd
            /\ timing.timing_probability = Frac(GapsNotExceeding(pivot_indices, cd), gaps)
            /\ (\A i \in 1..gaps : pivot_indices[i + 1] - pivot_indices[i] <= cd)
                  => timing.timing_probability = FInt(1)

C3_NonDecreasing ==
    (timing # None /\ timing' # None /\ current_bar' >= current_bar)
        => FLe(timing.timing_probability, timing'.timing_probability)

-----------------------------------------------------------------------------
(* Claims about the pivot detector, under SpecDetector *)

StrictlyIncreasing(idx) == \A i \in 1..(Len(idx) - 1) : idx[i] < idx[i + 1]

Spaced(idx, dist) ==
    \A i, j \in 1..Len(idx) : i # j => Abs(idx[i] - idx[j]) >= dist

WellSpaced(idx) == StrictlyIncreasing(idx) /\ Spaced(idx, distance)

\* C8: for a positive distance both detectors return, for each polarity, a
\* strictly increasing index sequence in which no two pivots are closer
\* than distance bars.
C8_PivotsIncreasingAndSpaced ==
    /\ (pc = "detect_pivots" /\ distance >= 1) =>
          /\ detected # ValueError
          /\ WellSpaced(detected.peak_indices)
          /\ WellSpaced(detected.valley_indices)
    /\ (pc = "detect_pivots_with_prices" /\ distance >= 1) =>
          /\ detected # ValueError
          /\ WellSpaced(IndicesOf(detected.pivots, TRUE))
          /\ WellSpaced(IndicesOf(detected.pivots, FALSE))

\* two local maxima of the highs closer than distance, one of them dropped
C8_Witness ==
    /\ pc = "detect_pivots_with_prices"
    /\ distance = 3
    /\ Len(LocalMaxima(highs)) = 2
    /\ Len(IndicesOf(detected.pivots, TRUE)) = 1

HasNonFinite(x) == \E i \in 1..Len(x) : ~IsFinite(x[i])

Malformed ==
    \/ Len(highs) # Len(lows)
    \/ HasNonFinite(highs)
    \/ HasNonFinite(lows)
    \/ distance <= 0

\* C10: a call with malformed input (series of different lengths, a NaN or
\* infinite value, a non-positive distance) ends in an error and never
\* produces a pivot sequence.
C10_MalformedInputRejected ==
    (pc # "start" /\ Malformed) => detected = ValueError

-----------------------------------------------------------------------------
(* Claims about the trajectory analysis, under Spec *)

Aligned == pc \in {"aligned", "timed", "done"}

Count(ps, is_high) == Cardinality({i \in 1..Len(ps) : ps[i].is_high = is_high})

Least(a, b) == IF a <= b THEN a ELSE b

C4_ScoreOfEntry ==
    Aligned =>
        \A k \in DOMAIN trajectory :
            LET e == trajectory[k]
                closeness == FSub(FInt(1), FDiv(e.deviation_pct, tolerance_pct))
            IN  /\ FLe(tolerance_pct, e.deviation_pct) => e.alignment_score = FInt(0)
                /\ FLt(e.deviation_pct, tolerance_pct)
                      => e.alignment_score = FMul(e.r_squared, closeness)

C4_NonIncreasing ==
    (pc = "aligned" /\ pc' = "aligned") =>
        \A k \in DOMAIN trajectory \cap DOMAIN trajectory' :
            (/\ trajectory[k].r_squared = trajectory'[k].r_squared
             /\ FLe(trajectory[k].deviation_pct, trajectory'[k].deviation_pct))
                => FLe(trajectory'[k].alignment_score, trajectory[k].alignment_score)

\* C4: every alignment_score is r_squared * max(0, 1 - deviation_pct /
\* tolerance_pct) and is 0 once deviation_pct >= tolerance_pct; when the
\* open bar is repriced (same fit, same tolerance) a deviation that does not
\* shrink gives a score that does not grow.
C4_AlignmentScoreMonotone == [](C4_ScoreOfEntry) /\ [][C4_NonIncreasing]_vars

\* a perfect fit and a deviation beyond the tolerance: the floor is what gives 0
C4_Witness ==
    /\ pc = "aligned"
    /\ "swing_high" \in DOMAIN trajectory
    /\ trajectory["swing_high"].r_squared = FInt(1)
    /\ FGt(trajectory["swing_high"].projected_price, FInt(0))
    /\ FGt(trajectory["swing_high"].deviation_pct, tolerance_pct)
    /\ trajectory["swing_high"].alignment_score = FInt(0)

\* C5: every alignment_score lies in [0, r_squared], and so the probability
\* of every verdict built from the two analyses lies in [0, 1].
C5_ScoreAndProbabilityBounded ==
    /\ Aligned =>
          \A k \in DOMAIN trajectory :
              /\ FLe(FInt(0), trajectory[k].alignment_score)
              /\ FLe(trajectory[k].alignment_score, trajectory[k].r_squared)
    /\ pc = "done" =>
          /\ FLe(FInt(0), verdict.probability)
          /\ FLe(verdict.probability, FInt(1))

\* C7: a polarity whose trend line projects a price of exactly 0 at the
\* evaluation bar is left out of the returned dict, and no returned
\* deviation_pct or alignment_score is NaN or infinite.
C7_DegenerateFitOmitted ==
    Aligned =>
        \A k \in DOMAIN trajectory :
            /\ trajectory[k].projected_price # FInt(0)
            /\ IsFinite(trajectory[k].deviation_pct)
            /\ IsFinite(trajectory[k].alignment_score)

-----------------------------------------------------------------------------
(* Claims about the combiner, under SpecCombiner *)

BothDefined == timing # None /\ Key(check_high) \in DOMAIN trajectory

\* C1: with the timing result None or the requested polarity's key absent
\* the verdict is probability 0, confidence 'low', reason 'insufficient
\* data'; otherwise it carries no reason and its probability is exactly
\* 0.4 * timing_probability + 0.6 * alignment_score of that polarity.
C1_WeightedSumOrInsufficient ==
    pc = "done" =>
        IF BothDefined
        THEN LET t == timing.timing_probability
                 a == trajectory[Key(check_high)].alignment_score
                 p == verdict.probability
             IN  /\ "reason" \notin DOMAIN verdict
                 /\ p.d > 0
                 /\ p.n * (10 * t.d * a.d) = p.d * (4 * t.n * a.d + 6 * a.n * t.d)
        ELSE /\ DOMAIN verdict = {"probability", "confidence", "reason"}
             /\ verdict.probability = FInt(0)
             /\ verdict.confidence = "low"
             /\ verdict.reason = "insufficient data"

\* a genuine zero probability, told apart from missing data by the reason
C1_Witness ==
    /\ pc = "done"
    /\ BothDefined
    /\ trajectory[Key(check_high)].r_squared = FInt(1)
    /\ verdict.probability = FInt(0)
    /\ "reason" \notin DOMAIN verdict

\* C6: with both inputs defined the confidence is 'high' if r_squared > 0.8
\* and timing_probability > 0.6, else 'medium' if r_squared > 0.5 and
\* timing_probability > 0.4, else 'low'; all four comparisons are strict.
C6_ConfidenceThresholds ==
    (pc = "done" /\ BothDefined) =>
        LET t == timing.timing_probability
            r == trajectory[Key(check_high)].r_squared
            high == 10 * r.n > 8 * r.d /\ 10 * t.n > 6 * t.d
            medium == 10 * r.n > 5 * r.d /\ 10 * t.n > 4 * t.d
        IN  verdict.confidence =
                IF high THEN "high" ELSE IF medium THEN "medium" ELSE "low"

\* r_squared exactly 0.8 with a timing_probability of 1 is 'medium', not 'high'
C6_Witness ==
    /\ pc = "done"
    /\ BothDefined
    /\ trajectory[Key(check_high)].r_squared = Frac(8, 10)
    /\ timing.timing_probability = FInt(1)
    /\ verdict.confidence = "medium"

=============================================================================
